---------------------------- MODULE Spec2Model ----------------------------
(***************************************************************************)
(* Model of main.py: the /scrape job.  run_scrape walks REGIONS; for each  *)
(* region scrape_region_events turns the model reply into `events` and     *)
(* save_events_to_db check-and-inserts them into sports_events inside one  *)
(* transaction on a connection of its own.  Every database call is one     *)
(* step, and every database call may raise.                                *)
(***************************************************************************)
EXTENDS Integers, Sequences, FiniteSets, Bags, TLC

(* ---------------------------- bounds ---------------------------------- *)

\* Longest `events` array a model reply carries.
MaxLen == 2

\* Requests to /scrape the server handles.
MaxRuns == 2

(* ------------------------- configuration ------------------------------ *)

\* REGIONS: positions 1..3 of the hard-coded list.
REGIONS == <<"Juan-Les-Pins", "San Francisco", "New York City">>

RegionIdx == 1 .. Len(REGIONS)

\* Request handlers: Main serves the sequential specifications, Other is the
\* second thread of the (threaded) server in the concurrent one.
Main == "main"

Other == "other"

Procs == {Main, Other}

(* ------------------------------ values -------------------------------- *)

\* Python None / SQL NULL.
NULL == "NULL"

FieldNames ==
    <<"event_name", "sport_type", "description", "event_location",
      "event_address", "event_startdatetime", "event_enddatetime", "link">>

\* dict.get(key): the value, or None when the key is missing.
Get(d, k) == IF k \in DOMAIN d THEN d[k] ELSE NULL

\* Event objects the model may put into the `events` array.
EvFull ==
    [event_name |-> "Open", sport_type |-> "Tennis", description |-> "d",
     event_location |-> "Court", event_address |-> "addr",
     event_startdatetime |-> "2025-01-01 10:00:00",
     event_enddatetime |-> NULL, link |-> "http://x"]

\* Same name, one second later, only the two identifying fields present.
EvLater ==
    [event_name |-> "Open", event_startdatetime |-> "2025-01-01 10:00:01"]

\* No event_name at all.
EvNoName == [event_startdatetime |-> "2025-01-01 10:00:00"]

EventPool == {EvFull, EvLater, EvNoName}

\* Lists of at most n elements of S.
RECURSIVE SeqsUpTo(_, _)
SeqsUpTo(S, n) ==
    IF n = 0 THEN {<< >>}
    ELSE LET shorter == SeqsUpTo(S, n - 1)
         IN  shorter \cup {Append(s, x) : s \in {t \in shorter : Len(t) = n - 1}, x \in S}

\* A decoded JSON value as Python sees it: t is its type, n its value when
\* a number, items its elements (array), characters (string) or keys (object).
JNull == [t |-> "null", n |-> 0, items |-> << >>]

JNum(k) == [t |-> "num", n |-> k, items |-> << >>]

JStr(chars) == [t |-> "str", n |-> 0, items |-> chars]

JObj(keys) == [t |-> "obj", n |-> 0, items |-> keys]

JArr(elems) == [t |-> "arr", n |-> 0, items |-> elems]

EmptyList == JArr(<< >>)

EventLists == {JArr(s) : s \in SeqsUpTo(EventPool, MaxLen)}

\* Values of the "events" key that are not arrays.
OddValues == {JNull, JNum(0), JNum(5), JStr(<< >>), JStr(<<"a", "b">>),
              JObj(<< >>), JObj(<<"k">>)}

\* What the chat completion does for one region: the call raises
\* ("throw"), the text is not JSON ("notjson"), the JSON is not an object
\* ("nonobject"), or it is an object with or without an "events" key.
Reply(kind, haskey, ev) == [kind |-> kind, haskey |-> haskey, events |-> ev]

BrokenReplies ==
    {Reply("throw", FALSE, JNull), Reply("notjson", FALSE, JNull),
     Reply("nonobject", FALSE, JNull), Reply("object", FALSE, JNull)}

ListReplies == {Reply("object", TRUE, v) : v \in EventLists}

OddReplies == {Reply("object", TRUE, v) : v \in OddValues}

Replies == BrokenReplies \cup ListReplies \cup OddReplies

NoReply == Reply("none", FALSE, JNull)

\* Stand-ins for the model client.
NoStub == [r \in {} |-> NoReply]

(* ------------------------- Python semantics --------------------------- *)

\* `not events`
Falsy(v) ==
    \/ v.t = "null"
    \/ v.t = "num" /\ v.n = 0
    \/ v.t \in {"str", "obj", "arr"} /\ Len(v.items) = 0

\* len(events) is defined
HasLen(v) == v.t \in {"str", "obj", "arr"}

\* `for event in events` is defined
Iterable(v) == v.t \in {"str", "obj", "arr"}

\* event.get exists: the element is a dict (array elements of the pool);
\* the characters of a string and the keys of an object are str.
ItemIsDict(v) == v.t = "arr"

\* scrape_region_events, lines 82-90: json.loads, then .get('events', []);
\* every exception gives [].
ParseReply(r) ==
    CASE r.kind = "throw" -> EmptyList
      [] r.kind = "notjson" -> EmptyList
      [] r.kind = "nonobject" -> EmptyList
      [] OTHER -> IF r.haskey THEN r.events ELSE EmptyList

(* ---------------------------- the table ------------------------------- *)

\* The tuple of the INSERT, lines 120-129.
RowOf(event) == [f \in {FieldNames[i] : i \in 1 .. Len(FieldNames)} |-> Get(event, f)]

\* The natural key of a row.
KeyOf(row) == <<row.event_name, row.event_startdatetime>>

\* WHERE event_name = %s AND event_startdatetime = %s: a comparison with
\* NULL is never true.
Matches(row, name, start) ==
    /\ name # NULL
    /\ start # NULL
    /\ row.event_name = name
    /\ row.event_startdatetime = start

\* A duplicate check on the name alone.
SelectFinds_NameOnly(rows, event) ==
    \E row \in BagToSet(rows) : row.event_name = Get(event, "event_name")

\* cursor.fetchone() of the SELECT over the rows the transaction sees.
SelectFinds(rows, event) ==
    \E row \in BagToSet(rows) :
        Matches(row, Get(event, "event_name"), Get(event, "event_startdatetime"))

(* ------------------------------ state --------------------------------- *)

VARIABLES
    store,         \* committed rows of sports_events (a bag)
    stub,          \* the model client: NoStub (live) or region -> reply
    history,       \* completed runs against a stubbed model client
    pc,            \* where each handler is
    runs,          \* requests the server has started
    ri,            \* index of the current region
    reply,         \* the model's reply for the current region
    events,        \* events of the current region
    results,       \* results dict of run_scrape
    total_events,  \* running total of run_scrape
    openConns,     \* connections each handler has open
    pending,       \* rows inserted and not committed, per handler
    saved_count,   \* counter of save_events_to_db
    idx,           \* position of the for loop in events
    ret,           \* value save_events_to_db returned
    raising,       \* an exception is leaving save_events_to_db
    response       \* what run_scrape returned

vars == <<store, stub, history, pc, runs, ri, reply, events, results,
          total_events, openConns, pending, saved_count, idx, ret, raising,
          response>>

NoResults == [r \in {} |-> [found |-> 0, saved |-> 0]]

NoResponse == [status |-> "none", total_events |-> 0, results |-> NoResults]

ErrorResponse == [status |-> "error", total_events |-> 0, results |-> NoResults]

InitWith(stubs) ==
    /\ store = EmptyBag
    /\ stub \in stubs
    /\ history = << >>
    /\ pc = [p \in Procs |-> "idle"]
    /\ runs = 0
    /\ ri = [p \in Procs |-> 1]
    /\ reply = [p \in Procs |-> NoReply]
    /\ events = [p \in Procs |-> EmptyList]
    /\ results = [p \in Procs |-> NoResults]
    /\ total_events = [p \in Procs |-> 0]
    /\ openConns = [p \in Procs |-> 0]
    /\ pending = [p \in Procs |-> EmptyBag]
    /\ saved_count = [p \in Procs |-> 0]
    /\ idx = [p \in Procs |-> 1]
    /\ ret = [p \in Procs |-> 0]
    /\ raising = [p \in Procs |-> FALSE]
    /\ response = [p \in Procs |-> NoResponse]

Init == InitWith({NoStub})

(* ----------------------------- run_scrape ----------------------------- *)

\* POST /scrape arrives: lines 149-150.
StartRun(p) ==
    /\ pc[p] = "idle"
    /\ runs < MaxRuns
    /\ pc' = [pc EXCEPT ![p] = "scrape"]
    /\ runs' = runs + 1
    /\ ri' = [ri EXCEPT ![p] = 1]
    /\ results' = [results EXCEPT ![p] = NoResults]
    /\ total_events' = [total_events EXCEPT ![p] = 0]
    /\ response' = [response EXCEPT ![p] = NoResponse]
    /\ UNCHANGED <<store, stub, history, reply, events, openConns, pending,
                   saved_count, idx, ret, raising>>

\* events = scrape_region_events(region), line 156.
ScrapeRegion(p) ==
    /\ pc[p] = "scrape"
    /\ \E r \in (IF stub = NoStub THEN Replies ELSE {stub[ri[p]]}) :
          /\ reply' = [reply EXCEPT ![p] = r]
          /\ events' = [events EXCEPT ![p] = ParseReply(r)]
    /\ pc' = [pc EXCEPT ![p] = "save"]
    /\ UNCHANGED <<store, stub, history, runs, ri, results, total_events,
                   openConns, pending, saved_count, idx, ret, raising,
                   response>>

(* -------------------------- save_events_to_db ------------------------- *)

\* Lines 94-96: `if not events: return 0`.
SaveEntry(p) ==
    /\ pc[p] = "save"
    /\ IF Falsy(events[p])
       THEN /\ ret' = [ret EXCEPT ![p] = 0]
            /\ pc' = [pc EXCEPT ![p] = "record"]
       ELSE /\ ret' = ret
            /\ pc' = [pc EXCEPT ![p] = "connect"]
    /\ UNCHANGED <<store, stub, history, runs, ri, reply, events, results,
                   total_events, openConns, pending, saved_count, idx,
                   raising, response>>

\* Line 98: conn = get_db_connection().
ConnectOk(p) ==
    /\ pc[p] = "connect"
    /\ openConns' = [openConns EXCEPT ![p] = @ + 1]
    /\ pc' = [pc EXCEPT ![p] = "cursor"]
    /\ UNCHANGED <<store, stub, history, runs, ri, reply, events, results,
                   total_events, pending, saved_count, idx, ret, raising, response>>

\* Line 98 raises: outside the try, the exception leaves the function.
ConnectFail(p) ==
    /\ pc[p] = "connect"
    /\ pc' = [pc EXCEPT ![p] = "error"]
    /\ UNCHANGED <<store, stub, history, runs, ri, reply, events, results,
                   total_events, openConns, pending, saved_count, idx, ret,
                   raising, response>>

\* Lines 99-100: cursor = conn.cursor(); saved_count = 0.
CursorOk(p) ==
    /\ pc[p] = "cursor"
    /\ saved_count' = [saved_count EXCEPT ![p] = 0]
    /\ idx' = [idx EXCEPT ![p] = 1]
    /\ pc' = [pc EXCEPT ![p] = "loop"]
    /\ UNCHANGED <<store, stub, history, runs, ri, reply, events, results,
                   total_events, openConns, pending, ret, raising,
                   response>>

\* Line 99 raises: outside the try, so neither rollback nor close runs.
CursorFail(p) ==
    /\ pc[p] = "cursor"
    /\ pc' = [pc EXCEPT ![p] = "error"]
    /\ UNCHANGED <<store, stub, history, runs, ri, reply, events, results,
                   total_events, openConns, pending, saved_count, idx, ret,
                   raising, response>>

\* Rows the handler's transaction sees: the committed ones and its own.
Visible(p) == store (+) pending[p]

\* Lines 103-112 without a database error: the for statement takes the next
\* element, event.get builds the parameters, the SELECT runs.
ForEvent(p) ==
    /\ pc[p] = "loop"
    /\ IF ~Iterable(events[p])
          \/ (idx[p] <= Len(events[p].items) /\ ~ItemIsDict(events[p]))
       THEN \* TypeError of the for, AttributeError of event.get
            /\ pc' = [pc EXCEPT ![p] = "rollback"]
            /\ idx' = idx
       ELSE IF idx[p] > Len(events[p].items)
       THEN /\ pc' = [pc EXCEPT ![p] = "commit"]
            /\ idx' = idx
       ELSE IF SelectFinds(Visible(p), events[p].items[idx[p]])
       THEN \* duplicate skipped: continue
            /\ pc' = pc
            /\ idx' = [idx EXCEPT ![p] = @ + 1]
       ELSE /\ pc' = [pc EXCEPT ![p] = "insert"]
            /\ idx' = idx
    /\ UNCHANGED <<store, stub, history, runs, ri, reply, events, results,
                   total_events, openConns, pending, saved_count, ret,
                   raising, response>>

\* Line 105 raises.
SelectFail(p) ==
    /\ pc[p] = "loop"
    /\ Iterable(events[p])
    /\ ItemIsDict(events[p])
    /\ idx[p] <= Len(events[p].items)
    /\ pc' = [pc EXCEPT ![p] = "rollback"]
    /\ UNCHANGED <<store, stub, history, runs, ri, reply, events, results,
                   total_events, openConns, pending, saved_count, idx, ret,
                   raising, response>>

\* Lines 115-132: INSERT, saved_count += 1.
InsertOk(p) ==
    /\ pc[p] = "insert"
    /\ pending' = [pending EXCEPT
                     ![p] = @ (+) SetToBag({RowOf(events[p].items[idx[p]])})]
    /\ saved_count' = [saved_count EXCEPT ![p] = @ + 1]
    /\ idx' = [idx EXCEPT ![p] = @ + 1]
    /\ pc' = [pc EXCEPT ![p] = "loop"]
    /\ UNCHANGED <<store, stub, history, runs, ri, reply, events, results,
                   total_events, openConns, ret, raising, response>>

\* Line 115 raises.
InsertFail(p) ==
    /\ pc[p] = "insert"
    /\ pc' = [pc EXCEPT ![p] = "rollback"]
    /\ UNCHANGED <<store, stub, history, runs, ri, reply, events, results,
                   total_events, openConns, pending, saved_count, idx, ret,
                   raising, response>>

\* A commit that drops the rows the table already holds.
Committed_SkipExisting(table, rows) ==
    table (+) SetToBag({row \in BagToSet(rows) : ~BagIn(row, table)})

\* What conn.commit() leaves in the table.
Committed(table, rows) == table (+) rows

\* Lines 134-136: conn.commit(); return saved_count.
CommitOk(p) ==
    /\ pc[p] = "commit"
    /\ store' = Committed(store, pending[p])
    /\ pending' = [pending EXCEPT ![p] = EmptyBag]
    /\ ret' = [ret EXCEPT ![p] = saved_count[p]]
    /\ pc' = [pc EXCEPT ![p] = "close"]
    /\ UNCHANGED <<stub, history, runs, ri, reply, events, results,
                   total_events, openConns, saved_count, idx, raising,
                   response>>

\* Line 134 raises.
CommitFail(p) ==
    /\ pc[p] = "commit"
    /\ pc' = [pc EXCEPT ![p] = "rollback"]
    /\ UNCHANGED <<store, stub, history, runs, ri, reply, events, results,
                   total_events, openConns, pending, saved_count, idx, ret,
                   raising, response>>

\* A rollback that deletes rows equal to those of the batch.
RolledBack_Compensating(table, rows) == table (-) rows

\* What conn.rollback() leaves in the table.
RolledBack(table, rows) == table

\* Lines 138-141: conn.rollback(); return 0.
RollbackOk(p) ==
    /\ pc[p] = "rollback"
    /\ store' = RolledBack(store, pending[p])
    /\ pending' = [pending EXCEPT ![p] = EmptyBag]
    /\ ret' = [ret EXCEPT ![p] = 0]
    /\ pc' = [pc EXCEPT ![p] = "close"]
    /\ UNCHANGED <<stub, history, runs, ri, reply, events, results,
                   total_events, openConns, saved_count, idx, raising,
                   response>>

\* Line 140 raises inside the except block: the new exception leaves the
\* function once the finally block has run.  The transaction never commits.
RollbackFail(p) ==
    /\ pc[p] = "rollback"
    /\ pending' = [pending EXCEPT ![p] = EmptyBag]
    /\ raising' = [raising EXCEPT ![p] = TRUE]
    /\ pc' = [pc EXCEPT ![p] = "close"]
    /\ UNCHANGED <<store, stub, history, runs, ri, reply, events, results,
                   total_events, openConns, saved_count, idx, ret, response>>

\* Lines 142-143: finally: conn.close(); then the return or the exception.
Close(p) ==
    /\ pc[p] = "close"
    /\ openConns' = [openConns EXCEPT ![p] = @ - 1]
    /\ raising' = [raising EXCEPT ![p] = FALSE]
    /\ pc' = [pc EXCEPT ![p] = IF raising[p] THEN "error" ELSE "record"]
    /\ UNCHANGED <<store, stub, history, runs, ri, reply, events, results,
                   total_events, pending, saved_count, idx, ret,
                   response>>

(* ------------------------ run_scrape, continued ----------------------- *)

\* The entry run_scrape writes for a region, lines 161-164.
Entry(evs, saved) == [found |-> Len(evs.items), saved |-> saved]

\* total_events = saved_count
AddTotal_Overwrite(total, saved) == saved

\* total_events += saved_count, line 165.
AddTotal(total, saved) == total + saved

\* Lines 161-165, then the next region; len(events) raises TypeError for a
\* value without a length.
Record(p) ==
    /\ pc[p] = "record"
    /\ IF HasLen(events[p])
       THEN /\ results' = [results EXCEPT
                             ![p] = [r \in DOMAIN @ \cup {ri[p]} |->
                                       IF r = ri[p] THEN Entry(events[p], ret[p])
                                       ELSE @[r]]]
            /\ total_events' = [total_events EXCEPT
                                  ![p] = AddTotal(@, ret[p])]
            /\ IF ri[p] < Len(REGIONS)
               THEN /\ ri' = [ri EXCEPT ![p] = @ + 1]
                    /\ pc' = [pc EXCEPT ![p] = "scrape"]
               ELSE /\ ri' = ri
                    /\ pc' = [pc EXCEPT ![p] = "done"]
            /\ reply' = [reply EXCEPT ![p] = NoReply]
            /\ events' = [events EXCEPT ![p] = EmptyList]
            /\ saved_count' = [saved_count EXCEPT ![p] = 0]
            /\ idx' = [idx EXCEPT ![p] = 1]
            /\ ret' = [ret EXCEPT ![p] = 0]
       ELSE /\ pc' = [pc EXCEPT ![p] = "error"]
            /\ UNCHANGED <<results, total_events, ri, reply, events,
                           saved_count, idx, ret>>
    /\ UNCHANGED <<store, stub, history, runs, openConns, pending, raising, response>>

\* A completed run as the caller of a stubbed model client observes it.
Observed(p, resp) ==
    IF stub = NoStub THEN history
    ELSE Append(history, [response |-> resp, store |-> store])

\* Lines 167-173: the success response.
RespondSuccess(p) ==
    /\ pc[p] = "done"
    /\ LET resp == [status |-> "success", total_events |-> total_events[p],
                    results |-> results[p]]
       IN  /\ response' = [response EXCEPT ![p] = resp]
           /\ history' = Observed(p, resp)
    /\ pc' = [pc EXCEPT ![p] = "idle"]
    /\ UNCHANGED <<store, stub, runs, ri, reply, events, results,
                   total_events, openConns, pending, saved_count, idx, ret,
                   raising>>

\* Lines 175-177: any exception of the loop ends the run with status error.
RespondError(p) ==
    /\ pc[p] = "error"
    /\ response' = [response EXCEPT ![p] = ErrorResponse]
    /\ history' = Observed(p, ErrorResponse)
    /\ pc' = [pc EXCEPT ![p] = "idle"]
    /\ reply' = [reply EXCEPT ![p] = NoReply]
    /\ events' = [events EXCEPT ![p] = EmptyList]
    /\ saved_count' = [saved_count EXCEPT ![p] = 0]
    /\ idx' = [idx EXCEPT ![p] = 1]
    /\ ret' = [ret EXCEPT ![p] = 0]
    /\ UNCHANGED <<store, stub, runs, ri, results, total_events, openConns,
                   pending, raising>>

Step(p) ==
    \/ StartRun(p)
    \/ ScrapeRegion(p)
    \/ SaveEntry(p)
    \/ ConnectOk(p)
    \/ ConnectFail(p)
    \/ CursorOk(p)
    \/ CursorFail(p)
    \/ ForEvent(p)
    \/ SelectFail(p)
    \/ InsertOk(p)
    \/ InsertFail(p)
    \/ CommitOk(p)
    \/ CommitFail(p)
    \/ RollbackOk(p)
    \/ RollbackFail(p)
    \/ Close(p)
    \/ Record(p)
    \/ RespondSuccess(p)
    \/ RespondError(p)

\* One handler, one request after the other, a live model.
Next == Step(Main)

Spec == Init /\ [][Next]_vars

\* The same request twice against a model client stubbed with lists of
\* events that carry both identifying fields.
IdemStubs ==
    [RegionIdx ->
        {Reply("object", TRUE, JArr(s)) : s \in SeqsUpTo({EvFull, EvLater}, MaxLen)}]

InitIdem == InitWith(IdemStubs)

\* No database call raises.
StepClean(p) ==
    \/ StartRun(p)
    \/ ScrapeRegion(p)
    \/ SaveEntry(p)
    \/ ConnectOk(p)
    \/ CursorOk(p)
    \/ ForEvent(p)
    \/ InsertOk(p)
    \/ CommitOk(p)
    \/ Close(p)
    \/ Record(p)
    \/ RespondSuccess(p)

NextIdem == StepClean(Main)

SpecIdem == InitIdem /\ [][NextIdem]_vars

\* Two handlers of the threaded server at once, the model answering each
\* region with one known event or with none.
ConcStubs ==
    [RegionIdx -> {Reply("object", TRUE, JArr(<<EvFull>>)),
                   Reply("object", TRUE, EmptyList)}]

InitConc == InitWith(ConcStubs)

NextConc == \E p \in Procs : Step(p)

SpecConc == InitConc /\ [][NextConc]_vars

(* ============================== claims ================================ *)

\* The row carries both identifying fields.
HasKey(row) == row.event_name # NULL /\ row.event_startdatetime # NULL

\* Rows of the table that carry the key of `row`, NULLs compared as values.
RowsWithKey(table, row) ==
    {other \in BagToSet(table) : KeyOf(other) = KeyOf(row)}

CountKey(table, row) ==
    LET same == RowsWithKey(table, row)
        RECURSIVE Sum(_)
        Sum(S) == IF S = {} THEN 0
                  ELSE LET x == CHOOSE x \in S : TRUE
                       IN  CopiesIn(x, table) + Sum(S \ {x})
    IN  Sum(same)

RECURSIVE SumSaved(_, _)
SumSaved(res, n) ==
    IF n = 0 THEN 0
    ELSE (IF n \in DOMAIN res THEN res[n].saved ELSE 0) + SumSaved(res, n - 1)

\* The run of handler p has ended and its response is out.
Ended(p) == pc[p] = "idle" /\ response[p].status # "none"

\* C1: whatever fails inside a region's sequence (model call, parsing,
\* any step of persistence, opening the connection included), the regions
\* after it are processed and the run ends with status success and an entry
\* for each of the three regions; a region whose model call throws
\* contributes found = 0 and saved = 0.  (The first conjunct leaves the
\* TypeError of len(events) to C5: no exception of the model call, the
\* parsing or save_events_to_db reaches the handler of run_scrape.)
C1_FailureIsolation ==
    \A p \in Procs :
        /\ pc[p] = "error" => ~HasLen(events[p])
        /\ Ended(p) =>
              /\ response[p].status = "success"
              /\ DOMAIN response[p].results = RegionIdx
        /\ (pc[p] = "record" /\ reply[p].kind = "throw") =>
              Entry(events[p], ret[p]) = [found |-> 0, saved |-> 0]

\* C2: when the database raises inside a region's batch (SELECT, INSERT
\* or commit of a list of events), the handler's next step leaves the table
\* as it was with nothing of the batch in it, save_events_to_db returns 0,
\* and no exception leaves save_events_to_db.
C2_RollbackContained ==
    [][\A p \in Procs :
          (pc[p] = "rollback" /\ events[p].t = "arr" /\ pc'[p] # "rollback") =>
              /\ store' = store
              /\ pending'[p] = EmptyBag
              /\ ret'[p] = 0
              /\ ~raising'[p]]_vars

\* C3: the committed table never holds two rows with the same
\* (event_name, event_startdatetime) pair, absent fields included.
C3_UniqueKeys ==
    \A row \in BagToSet(store) : CountKey(store, row) = 1

\* Among the rows that carry both identifying fields no key occurs twice
\* (sequential runs).
UniqueKeysWhenPresent ==
    \A row \in BagToSet(store) : HasKey(row) => CountKey(store, row) = 1

\* C5: the parsing step always yields a list of event records, and the
\* empty list for every reply that is not an object whose "events" value
\* is an array, so that len(events) is always defined.
C5_ParserTotal ==
    \A p \in Procs :
        reply[p] # NoReply =>
            /\ events[p].t = "arr"
            /\ reply[p] \notin ListReplies => events[p] = EmptyList
            /\ HasLen(events[p])

\* C6: without a database error, an event is inserted exactly when no row
\* the transaction sees carries its (event_name, event_startdatetime); a
\* skipped duplicate leaves saved_count alone; the count returned is the
\* number of rows the commit added to the table.
C6_CheckAndInsert ==
    [][\A p \in Procs :
          /\ (/\ pc[p] = "loop"
              /\ events[p].t = "arr"
              /\ idx[p] <= Len(events[p].items)
              /\ pc'[p] \in {"loop", "insert"}) =>
                 LET row == RowOf(events[p].items[idx[p]])
                 IN  /\ pc'[p] = "insert" <=> RowsWithKey(Visible(p), row) = {}
                     /\ saved_count'[p] = saved_count[p]
          /\ (pc[p] = "insert" /\ pc'[p] = "loop") =>
                 /\ saved_count'[p] = saved_count[p] + 1
                 /\ CopiesIn(RowOf(events[p].items[idx[p]]), pending'[p])
                      = CopiesIn(RowOf(events[p].items[idx[p]]), pending[p]) + 1
          /\ (pc[p] = "commit" /\ pc'[p] = "close") =>
                 ret'[p] = BagCardinality(store') - BagCardinality(store)]_vars

\* C8: no handler has a connection open outside save_events_to_db
\* (before the connect, after the return or the exception, when the run has
\* ended), and never more than one.
C8_ConnectionScoped ==
    \A p \in Procs :
        /\ openConns[p] <= 1
        /\ pc[p] \in {"idle", "scrape", "save", "connect", "record", "done",
                      "error"} => openConns[p] = 0

(* ---- C7 ---- *)

C7_Inv ==
    \A p \in Procs :
        /\ total_events[p] = SumSaved(results[p], Len(REGIONS))
        /\ \A r \in DOMAIN results[p] : results[p][r].saved <= results[p][r].found
        /\ Ended(p) /\ response[p].status = "success" =>
              /\ response[p].results = results[p]
              /\ DOMAIN results[p] = RegionIdx
              /\ response[p].total_events = SumSaved(results[p], Len(REGIONS))

C7_Act ==
    \A p \in Procs :
        (pc[p] = "record" /\ pc'[p] \in {"scrape", "done"}) =>
            /\ results'[p][ri[p]].found = Len(ParseReply(reply[p]).items)
            /\ results'[p][ri[p]].saved = ret[p]
            /\ \A r \in DOMAIN results[p] \ {ri[p]} : results'[p][r] = results[p][r]

\* C7: in every completed run each region's found is the number of
\* events parsed from its reply, its saved is the count persistence returned
\* and is at most found, and total_events is the sum of saved over the
\* regions.
C7_Aggregation == []C7_Inv /\ [][C7_Act]_vars

\* C7 witness: replies with 2, 0 and 1 novel events give total_events = 3
\* and (found, saved) = (2,2), (0,0), (1,1).
C7_Witness ==
    /\ Ended(Main)
    /\ response[Main] =
         [status |-> "success", total_events |-> 3,
          results |-> <<[found |-> 2, saved |-> 2], [found |-> 0, saved |-> 0],
                        [found |-> 1, saved |-> 1]>>]

(* ---- C10 ---- *)

\* C10: no step removes or changes a committed row; a rollback, a
\* failure and a region with an empty event list leave the table as it is.
C10_AppendOnly ==
    [][/\ store \sqsubseteq store'
       /\ \A p \in Procs :
             \/ pc[p] \in {"rollback", "connect", "cursor", "error"}
             \/ pc[p] = "save" /\ Falsy(events[p])
             => (pc'[p] # pc[p] => store' = store)]_vars

\* C10 witness: the batch of the second region was rolled back while the
\* two rows committed for the first region of the same run are in the table.
C10_Witness ==
    /\ pc[Main] = "close"
    /\ ri[Main] = 2
    /\ runs = 1
    /\ ~raising[Main]
    /\ saved_count[Main] = 1
    /\ ret[Main] = 0
    /\ 1 \in DOMAIN results[Main]
    /\ results[Main][1].saved = 2
    /\ BagCardinality(store) = 2

(* ---- C4 ---- *)

Keys(r) == {KeyOf(RowOf(stub[r].events.items[i])) : i \in 1 .. Len(stub[r].events.items)}

\* Two runs against the same stub, every event with both identifying
\* fields, both runs successful (no database call raises in SpecIdem).
TwoCleanRuns ==
    /\ Len(history) >= 2
    /\ \A i \in 1 .. 2 : history[i].response.status = "success"
    /\ \A r \in RegionIdx : \A k \in Keys(r) : k[1] # NULL /\ k[2] # NULL

\* C4 as stated: the first run reports saved = N for every region, the
\* second saved = 0, and the second leaves the table as the first left it.
C4_Original ==
    TwoCleanRuns =>
        /\ \A r \in RegionIdx :
              /\ history[1].response.results[r].saved = Len(stub[r].events.items)
              /\ history[2].response.results[r].saved = 0
        /\ history[2].store = history[1].store

\* C4 amended: the second run reports saved = 0 for every region and
\* leaves the table as the first left it; the first run reports for each
\* region the number of distinct keys of its reply that no earlier region
\* returned, which is N when all events of the run have distinct keys.
C4_Idempotent ==
    TwoCleanRuns =>
        /\ \A r \in RegionIdx :
              /\ history[1].response.results[r].saved =
                   Cardinality(Keys(r) \ UNION {Keys(q) : q \in 1 .. r - 1})
              /\ history[2].response.results[r].saved = 0
        /\ history[2].store = history[1].store
        /\ BagCardinality(history[1].store) = history[1].response.total_events

\* C4 witness: two clean runs, the first of which saved rows.
C4_Witness ==
    /\ TwoCleanRuns
    /\ Len(stub[1].events.items) = 2
    /\ history[1].response.results[1].saved = 2
    /\ history[1].response.results[2].saved = 0
    /\ Len(stub[2].events.items) = 1
    /\ history[2].response.total_events = 0

(* ---- C9 ---- *)

\* C9: nothing stops the race: a SELECT sees only committed rows and the
\* handler's own, and a commit adds every row of its transaction whatever
\* the table holds by then.
C9_RaceNotPrevented ==
    [][\A p \in Procs :
          /\ (pc[p] = "loop" /\ pc'[p] = "insert") =>
                ~SelectFinds(store (+) pending[p], events[p].items[idx[p]])
          /\ (pc[p] = "commit" /\ pc'[p] = "close") =>
                \A row \in BagToSet(pending[p]) :
                    CopiesIn(row, store') = CopiesIn(row, store) + CopiesIn(row, pending[p])]_vars

\* C9 witness: both handlers passed the check for the same key, both
\* inserted and committed, and the table holds two rows with that key.
C9_Witness ==
    /\ \E row \in BagToSet(store) : HasKey(row) /\ CountKey(store, row) = 2
    /\ \A p \in Procs : 1 \in DOMAIN results[p] /\ results[p][1].saved = 1

=============================================================================
